---------------------------- MODULE Spec2Model ----------------------------
(***************************************************************************)
(* The phrase store of Deubot (src/deubot/database.py, class PhrasesDB):   *)
(* fuzzy de-duplication on insertion (normalisation + character-trigram    *)
(* Jaccard similarity) and the SM-2 derived review scheduler.              *)
(*                                                                         *)
(* Representation choices                                                  *)
(*  - A Python str is a sequence of characters; a character is a one-      *)
(*    element TLA+ string, and the three non-ASCII code points that occur  *)
(*    are written by their code point ("U+00FC" is u-umlaut, "U+00DC" its  *)
(*    capital, "U+0308" the combining diaeresis).                          *)
(*  - ease_factor is a Python float that starts at 2.5 and only ever moves *)
(*    by multiples of 0.02; it is kept in hundredths (250 = 2.5).  The     *)
(*    double-precision results of update_review, including the truncation  *)
(*    int(interval_days * ease_factor), coincide with the hundredths       *)
(*    arithmetic for every sequence of at most five reviews of a phrase    *)
(*    with the qualities tried here (from the sixth review on the double   *)
(*    product can fall just below a whole number that the exact product    *)
(*    reaches); the budgets below stay within five reviews.                *)
(*  - The similarity (a float quotient of two small set sizes) is kept as  *)
(*    the pair <<|intersection|, |union|>>; `sim >= 0.85` is then          *)
(*    100 * num >= 85 * den (17/20 and the literal 0.85 round to the same  *)
(*    double, every other quotient of sizes below 64 is far from it).      *)
(*  - datetime.now() is the clock `now`, counted in ticks; a day is        *)
(*    TicksPerDay ticks.  ISO strings of one format compare as the         *)
(*    instants they denote, so next_review is kept as the instant.         *)
(*  - The store is constructed with a backing path; `file` is the content  *)
(*    of that file (one JSON object per line, in order).                   *)
(***************************************************************************)
EXTENDS Integers, Sequences, FiniteSets, TLC

VARIABLES
    phrases,    \* self.phrases: the insertion-ordered dict, as the sequence of its values
    file,       \* the lines of the gzip file at db_path
    now,        \* the clock read by datetime.now()
    budget,     \* reviews and clock ticks the behaviour may still make (bounds the model)
    last,       \* the operation performed by the last step, its arguments and its result
    reviews,    \* history: for each stored phrase, in dict order, the update_review
                \* calls made on it since add_phrase created it, with their outcomes
    agent,      \* GermanLearningAgent: its fields and the position of process_message
    bot         \* DeuBot: its fields, and the review cards it has sent

vars == <<phrases, file, now, budget, last, reviews, agent, bot>>

\* the variables of the store
store == <<phrases, file, now, budget, last, reviews>>

\* None where a str is expected, and None where a Phrase is expected
None == <<"None">>
NoPhrase == [none |-> TRUE]

-----------------------------------------------------------------------------
(* Bounds of the model *)

MaxPhrases == 2
MaxSteps == 1
SchedSteps == 4
DueSteps == 3
AgentSteps == 1
SessionSteps == 2
BotSteps == 4
TicksPerDay == 2

\* the quality ratings tried: failures, the four buttons and 5, and values above 5
\* (16 takes any ease factor below the floor in one step)
Qualities == {0, 2, 3, 4, 5, 16}

\* the ratings tried where several phrases are stored: a failure and a success
Ratings == {2, 5}

\* the ratings of the bot's four buttons: Again, Hard, Good, Easy
ButtonQualities == {1, 2, 3, 4}

\* the ratings tried where the due phrases are queried: "Again" and "Easy" as the
\* agent translates them
DueRatings == {2, 4}

-----------------------------------------------------------------------------
(* Characters *)

UPPER ==
    <<"A", "B", "C", "D", "E", "F", "G", "H", "I", "J", "K", "L", "M", "N",
      "O", "P", "Q", "R", "S", "T", "U", "V", "W", "X", "Y", "Z", "U+00DC">>

LOWER ==
    <<"a", "b", "c", "d", "e", "f", "g", "h", "i", "j", "k", "l", "m", "n",
      "o", "p", "q", "r", "s", "t", "u", "v", "w", "x", "y", "z", "U+00FC">>

Whitespace == {" ", "\t", "\n"}

CombiningDiaeresis == "U+0308"

\* str.lower(), one character
LowerChar(c) ==
    IF \E i \in 1..Len(UPPER) : UPPER[i] = c
    THEN LOWER[CHOOSE i \in 1..Len(UPPER) : UPPER[i] = c]
    ELSE c

\* str.lower()
lower(s) == [i \in 1..Len(s) |-> LowerChar(s[i])]

\* the canonical composition of a letter with a combining diaeresis; the letter
\* itself when there is none
Composed(c) ==
    CASE c = "u" -> "U+00FC"
      [] c = "U" -> "U+00DC"
      [] OTHER -> c

\* unicodedata.normalize("NFC", s)
RECURSIVE NFC(_)
NFC(s) ==
    IF Len(s) < 2 THEN s
    ELSE IF s[2] = CombiningDiaeresis /\ Composed(s[1]) # s[1]
         THEN <<Composed(s[1])>> \o NFC(SubSeq(s, 3, Len(s)))
         ELSE <<s[1]>> \o NFC(Tail(s))

\* str.split(): the maximal runs of non-whitespace characters
RECURSIVE split(_)
split(s) ==
    IF s = <<>> THEN <<>>
    ELSE IF s[1] \in Whitespace THEN split(Tail(s))
    ELSE LET n == IF \E i \in 1..Len(s) : s[i] \in Whitespace
                  THEN (CHOOSE i \in 1..Len(s) :
                            /\ s[i] \in Whitespace
                            /\ \A j \in 1..(i - 1) : s[j] \notin Whitespace) - 1
                  ELSE Len(s)
         IN  <<SubSeq(s, 1, n)>> \o split(SubSeq(s, n + 1, Len(s)))

\* " ".join(words)
RECURSIVE join(_)
join(words) ==
    IF words = <<>> THEN <<>>
    ELSE IF Len(words) = 1 THEN words[1]
    ELSE words[1] \o <<" ">> \o join(Tail(words))

\* str.startswith(prefix)
startswith(s, prefix) ==
    /\ Len(prefix) <= Len(s)
    /\ SubSeq(s, 1, Len(prefix)) = prefix

-----------------------------------------------------------------------------
(* Deduplication: _normalize_phrase, _calculate_similarity *)

\* the article list of _normalize_phrase, each with its trailing space
ARTICLES ==
    << <<"d", "e", "r", " ">>, <<"d", "i", "e", " ">>, <<"d", "a", "s", " ">>,
       <<"e", "i", "n", " ">>, <<"e", "i", "n", "e", " ">>,
       <<"e", "i", "n", "e", "n", " ">>, <<"e", "i", "n", "e", "m", " ">>,
       <<"e", "i", "n", "e", "r", " ">>, <<"e", "i", "n", "e", "s", " ">> >>

\* the for loop over the articles, from the i-th on: the first article that is a
\* prefix is cut off and the loop ends (break)
RECURSIVE StripArticleFrom(_, _)
StripArticleFrom(normalized, i) ==
    IF i > Len(ARTICLES) THEN normalized
    ELSE IF startswith(normalized, ARTICLES[i])
         THEN SubSeq(normalized, Len(ARTICLES[i]) + 1, Len(normalized))
         ELSE StripArticleFrom(normalized, i + 1)

\* a faulty _normalize_phrase that leaves the article in place
_normalize_phrase_keeping_article(phrase) ==
    join(split(lower(NFC(phrase))))

_normalize_phrase(phrase) ==
    StripArticleFrom(join(split(lower(NFC(phrase)))), 1)

\* get_trigrams: the text is padded with two spaces before and one after
get_trigrams(text) ==
    LET padded == <<" ", " ">> \o text \o <<" ">>
    IN  {SubSeq(padded, i, i + 2) : i \in 1..(Len(padded) - 2)}

\* the quotient intersection / union, as <<numerator, denominator>>
_calculate_similarity(phrase1, phrase2) ==
    LET trigrams1 == get_trigrams(phrase1)
        trigrams2 == get_trigrams(phrase2)
        intersection == Cardinality(trigrams1 \cap trigrams2)
        union == Cardinality(trigrams1 \cup trigrams2)
    IN  IF trigrams1 = {} \/ trigrams2 = {}
        THEN (IF phrase1 = phrase2 THEN <<1, 1>> ELSE <<0, 1>>)
        ELSE IF union > 0 THEN <<intersection, union>> ELSE <<0, 1>>

\* the default of find_similar_phrase's threshold, 0.85, in hundredths
threshold == 85

\* similarity >= threshold
AtLeastThreshold(similarity) ==
    100 * similarity[1] >= threshold * similarity[2]

-----------------------------------------------------------------------------
(* The phrases offered to add_phrase *)

DerHund ==
    <<"d", "e", "r", " ", "H", "u", "n", "d">>

Hund ==
    <<"H", "u", "n", "d">>

DieHUND ==
    <<" ", " ", "D", "i", "e", " ", "\t", "H", "U", "N", "D", " ">>

Tuer ==
    <<"T", "U+00FC", "r">>

TuerDecomposed ==
    <<"T", "u", "U+0308", "r">>

DasEineMal ==
    <<"d", "a", "s", " ", "e", "i", "n", "e", " ", "M", "a", "l">>

EineMal ==
    <<"e", "i", "n", "e", " ", "M", "a", "l">>

Gleichberechtigte ==
    <<"G", "l", "e", "i", "c", "h", "b", "e", "r", "e", "c", "h", "t", "i", "g", "t", "e">>

Gleichberechtigter ==
    <<"G", "l", "e", "i", "c", "h", "b", "e", "r", "e", "c", "h", "t", "i", "g", "t", "e", "r">>

Gleichberechtigtes ==
    <<"G", "l", "e", "i", "c", "h", "b", "e", "r", "e", "c", "h", "t", "i", "g", "t", "e", "s">>

GutenMorgen ==
    <<"G", "u", "t", "e", "n", " ", "M", "o", "r", "g", "e", "n">>

GutenMorgenLower ==
    <<"g", "u", "t", "e", "n", " ", "m", "o", "r", "g", "e", "n">>

Pool ==
    {DerHund, Hund, DieHUND, DasEineMal, EineMal,
     Gleichberechtigte, Gleichberechtigter, Gleichberechtigtes}

SchedPool == {Tuer, TuerDecomposed}

DuePool == {GutenMorgen, GutenMorgenLower, Tuer, Hund}

VocabPool == {Tuer, Hund, GutenMorgen}

\* _normalize_phrase and the threshold test on the offered phrases, computed once
Normalized == [g \in Pool \cup SchedPool \cup DuePool |-> _normalize_phrase(g)]

Similar ==
    [g \in Pool \cup SchedPool \cup DuePool, h \in Pool \cup SchedPool \cup DuePool |->
        AtLeastThreshold(_calculate_similarity(Normalized[g], Normalized[h]))]

-----------------------------------------------------------------------------
(* The store: class PhrasesDB *)

\* the defaults of the Phrase dataclass and the floor of update_review, in hundredths
DefaultEase == 250
MinEase == 130

Digits == <<"0", "1", "2", "3", "4", "5", "6", "7", "8", "9">>

\* f"{n}": the decimal digits of a natural number
RECURSIVE str(_)
str(n) ==
    IF n < 10 THEN <<Digits[n + 1]>>
    ELSE str(n \div 10) \o <<Digits[(n % 10) + 1]>>

\* Phrase(id=..., german=..., next_review=...), the other fields at their defaults
Phrase(id, german, next_review) ==
    [id |-> id, german |-> german, ease_factor |-> DefaultEase,
     interval_days |-> 0, repetition |-> 0, next_review |-> next_review]

\* the position of key phrase_id in the dict, 0 when it is not a key
IndexOf(ps, phrase_id) ==
    IF \E i \in 1..Len(ps) : ps[i].id = phrase_id
    THEN CHOOSE i \in 1..Len(ps) : ps[i].id = phrase_id
    ELSE 0

\* self.phrases[phrase_id] = phrase: a new key goes to the end, an existing key
\* keeps its place and gets the new value
SetItem(ps, phrase_id, phrase) ==
    IF IndexOf(ps, phrase_id) = 0
    THEN Append(ps, phrase)
    ELSE [ps EXCEPT ![IndexOf(ps, phrase_id)] = phrase]

\* the history kept in step with SetItem: position 0 is a new key
SetItemAt(rs, i, r) == IF i = 0 THEN Append(rs, r) ELSE [rs EXCEPT ![i] = r]

\* one line of the file: asdict(phrase) with "id" renamed to "_id"
Dump(phrase) ==
    [_id |-> phrase.id, german |-> phrase.german, ease_factor |-> phrase.ease_factor,
     interval_days |-> phrase.interval_days, repetition |-> phrase.repetition,
     next_review |-> phrase.next_review]

\* _save: the file is rewritten with one line per phrase, in dict order
_save(ps) == [i \in 1..Len(ps) |-> Dump(ps[i])]

\* json.loads of one line: "_id" becomes "id", Phrase(**phrase_data)
Parse(line) ==
    [id |-> line._id, german |-> line.german, ease_factor |-> line.ease_factor,
     interval_days |-> line.interval_days, repetition |-> line.repetition,
     next_review |-> line.next_review]

\* the loop of _load: every line is stored under its id, a later line with the
\* same id replacing the earlier one
RECURSIVE LoadInto(_, _)
LoadInto(ps, lines) ==
    IF lines = <<>> THEN ps
    ELSE LoadInto(SetItem(ps, Parse(Head(lines)).id, Parse(Head(lines))), Tail(lines))

\* _load: the phrases of a fresh PhrasesDB on the file
_load(lines) == LoadInto(<<>>, lines)

\* a faulty find_similar_phrase that misses a phrase exactly at the threshold
find_similar_phrase_above_threshold(ps, german) ==
    LET Above(h) ==
            LET similarity == _calculate_similarity(Normalized[german], Normalized[h])
            IN  100 * similarity[1] > threshold * similarity[2]
    IN  IF \E i \in 1..Len(ps) : Above(ps[i].german)
        THEN ps[CHOOSE i \in 1..Len(ps) :
                    /\ Above(ps[i].german)
                    /\ \A j \in 1..(i - 1) : ~Above(ps[j].german)]
        ELSE NoPhrase

\* find_similar_phrase: the first phrase, in dict order, whose normalised text is
\* similar enough to the normalised input; None (NoPhrase) when there is none
find_similar_phrase(ps, german) ==
    IF \E i \in 1..Len(ps) : Similar[german, ps[i].german]
    THEN ps[CHOOSE i \in 1..Len(ps) :
                /\ Similar[german, ps[i].german]
                /\ \A j \in 1..(i - 1) : ~Similar[german, ps[j].german]]
    ELSE NoPhrase

\* a faulty add_phrase that stores the new spelling over the phrase it found
add_phrase_overwriting(german) ==
    LET existing_phrase == find_similar_phrase(phrases, german)
        phrase_id == str(Len(phrases) + 1)
    IN  IF existing_phrase # NoPhrase
        THEN /\ phrases' = SetItem(phrases, existing_phrase.id,
                                   [existing_phrase EXCEPT !.german = german])
             /\ file' = _save(phrases')
             /\ last' = [op |-> "add_phrase", german |-> german,
                         id |-> existing_phrase.id, is_new |-> FALSE,
                         existing |-> existing_phrase.german, saved |-> TRUE]
             /\ UNCHANGED <<now, budget, reviews>>
        ELSE /\ Len(phrases) < MaxPhrases
             /\ phrases' = SetItem(phrases, phrase_id, Phrase(phrase_id, german, now))
             /\ file' = _save(phrases')
             /\ last' = [op |-> "add_phrase", german |-> german, id |-> phrase_id,
                         is_new |-> TRUE, existing |-> None, saved |-> TRUE]
             /\ reviews' = SetItemAt(reviews, IndexOf(phrases, phrase_id), <<>>)
             /\ UNCHANGED <<now, budget>>

\* a faulty add_phrase that does not save the new phrase
add_phrase_unsaved(german) ==
    LET existing_phrase == find_similar_phrase(phrases, german)
        phrase_id == str(Len(phrases) + 1)
    IN  IF existing_phrase # NoPhrase
        THEN /\ last' = [op |-> "add_phrase", german |-> german,
                         id |-> existing_phrase.id, is_new |-> FALSE,
                         existing |-> existing_phrase.german, saved |-> FALSE]
             /\ UNCHANGED <<phrases, file, now, budget, reviews>>
        ELSE /\ Len(phrases) < MaxPhrases
             /\ phrases' = SetItem(phrases, phrase_id, Phrase(phrase_id, german, now))
             /\ file' = file
             /\ last' = [op |-> "add_phrase", german |-> german, id |-> phrase_id,
                         is_new |-> TRUE, existing |-> None, saved |-> TRUE]
             /\ reviews' = SetItemAt(reviews, IndexOf(phrases, phrase_id), <<>>)
             /\ UNCHANGED <<now, budget>>

\* add_phrase(german)
add_phrase(german) ==
    LET existing_phrase == find_similar_phrase(phrases, german)
        phrase_id == str(Len(phrases) + 1)
    IN  IF existing_phrase # NoPhrase
        THEN /\ last' = [op |-> "add_phrase", german |-> german,
                         id |-> existing_phrase.id, is_new |-> FALSE,
                         existing |-> existing_phrase.german, saved |-> FALSE]
             /\ UNCHANGED <<phrases, file, now, budget, reviews>>
        ELSE /\ Len(phrases) < MaxPhrases
             /\ phrases' = SetItem(phrases, phrase_id, Phrase(phrase_id, german, now))
             /\ file' = _save(phrases')
             /\ last' = [op |-> "add_phrase", german |-> german, id |-> phrase_id,
                         is_new |-> TRUE, existing |-> None, saved |-> TRUE]
             /\ reviews' = SetItemAt(reviews, IndexOf(phrases, phrase_id), <<>>)
             /\ UNCHANGED <<now, budget>>

\* a faulty ease change that takes 4, the agent's highest rating, for the top of
\* the scale: 0.1 - (4 - quality) * (0.08 + (4 - quality) * 0.02)
EaseDelta_top_rating_four(quality) == 10 - (4 - quality) * (8 + (4 - quality) * 2)

\* a faulty ease change whose penalty grows only linearly: 0.1 - (5 - quality) * 0.1
EaseDelta_linear(quality) == 10 - (5 - quality) * (8 + 2)

\* 0.1 - (5 - quality) * (0.08 + (5 - quality) * 0.02), in hundredths
EaseDelta(quality) == 10 - (5 - quality) * (8 + (5 - quality) * 2)

Max(a, b) == IF a >= b THEN a ELSE b

\* int(interval_days * ease_factor): the product truncated
IntervalTimesEase(interval_days, ease_factor) == (interval_days * ease_factor) \div 100

\* a faulty update_review without the floor max(1.3, ...)
Reviewed_no_floor(phrase, quality, t) ==
    LET ease_factor == IF quality >= 3
                       THEN phrase.ease_factor + EaseDelta(quality)
                       ELSE phrase.ease_factor
        repetition == IF quality >= 3 THEN phrase.repetition + 1 ELSE 0
        interval_days ==
            IF quality >= 3
            THEN (IF repetition = 1 THEN 1
                  ELSE IF repetition = 2 THEN 6
                  ELSE IntervalTimesEase(phrase.interval_days, ease_factor))
            ELSE 1
    IN  [phrase EXCEPT !.ease_factor = ease_factor,
                       !.repetition = repetition,
                       !.interval_days = interval_days,
                       !.next_review = t + interval_days * TicksPerDay]

\* a faulty update_review that lowers the ease factor on a failure too, as
\* textbook SM-2 does
Reviewed_penalising_failure(phrase, quality, t) ==
    LET ease_factor == Max(MinEase, phrase.ease_factor + EaseDelta(quality))
        repetition == IF quality >= 3 THEN phrase.repetition + 1 ELSE 0
        interval_days ==
            IF quality >= 3
            THEN (IF repetition = 1 THEN 1
                  ELSE IF repetition = 2 THEN 6
                  ELSE IntervalTimesEase(phrase.interval_days, ease_factor))
            ELSE 1
    IN  [phrase EXCEPT !.ease_factor = ease_factor,
                       !.repetition = repetition,
                       !.interval_days = interval_days,
                       !.next_review = t + interval_days * TicksPerDay]

\* a faulty update_review that multiplies the interval by the ease factor as it
\* was before the review
Reviewed_old_ease(phrase, quality, t) ==
    LET ease_factor == IF quality >= 3
                       THEN Max(MinEase, phrase.ease_factor + EaseDelta(quality))
                       ELSE phrase.ease_factor
        repetition == IF quality >= 3 THEN phrase.repetition + 1 ELSE 0
        interval_days ==
            IF quality >= 3
            THEN (IF repetition = 1 THEN 1
                  ELSE IF repetition = 2 THEN 6
                  ELSE IntervalTimesEase(phrase.interval_days, phrase.ease_factor))
            ELSE 1
    IN  [phrase EXCEPT !.ease_factor = ease_factor,
                       !.repetition = repetition,
                       !.interval_days = interval_days,
                       !.next_review = t + interval_days * TicksPerDay]

\* a faulty update_review that schedules a failed phrase for the same day
\* (interval_days = 0) instead of the next one
Reviewed_failure_same_day(phrase, quality, t) ==
    LET ease_factor == IF quality >= 3
                       THEN Max(MinEase, phrase.ease_factor + EaseDelta(quality))
                       ELSE phrase.ease_factor
        repetition == IF quality >= 3 THEN phrase.repetition + 1 ELSE 0
        interval_days ==
            IF quality >= 3
            THEN (IF repetition = 1 THEN 1
                  ELSE IF repetition = 2 THEN 6
                  ELSE IntervalTimesEase(phrase.interval_days, ease_factor))
            ELSE 0
    IN  [phrase EXCEPT !.ease_factor = ease_factor,
                       !.repetition = repetition,
                       !.interval_days = interval_days,
                       !.next_review = t + interval_days * TicksPerDay]

\* a faulty update_review that computes next_review from the interval as it was
\* before the review
Reviewed_old_interval(phrase, quality, t) ==
    LET ease_factor == IF quality >= 3
                       THEN Max(MinEase, phrase.ease_factor + EaseDelta(quality))
                       ELSE phrase.ease_factor
        repetition == IF quality >= 3 THEN phrase.repetition + 1 ELSE 0
        interval_days ==
            IF quality >= 3
            THEN (IF repetition = 1 THEN 1
                  ELSE IF repetition = 2 THEN 6
                  ELSE IntervalTimesEase(phrase.interval_days, ease_factor))
            ELSE 1
    IN  [phrase EXCEPT !.ease_factor = ease_factor,
                       !.repetition = repetition,
                       !.interval_days = interval_days,
                       !.next_review = t + phrase.interval_days * TicksPerDay]

\* the body of update_review for a known phrase: the schedule fields after a review
\* of the given quality at time t
Reviewed(phrase, quality, t) ==
    LET ease_factor == IF quality >= 3
                       THEN Max(MinEase, phrase.ease_factor + EaseDelta(quality))
                       ELSE phrase.ease_factor
        repetition == IF quality >= 3 THEN phrase.repetition + 1 ELSE 0
        interval_days ==
            IF quality >= 3
            THEN (IF repetition = 1 THEN 1
                  ELSE IF repetition = 2 THEN 6
                  ELSE IntervalTimesEase(phrase.interval_days, ease_factor))
            ELSE 1
    IN  [phrase EXCEPT !.ease_factor = ease_factor,
                       !.repetition = repetition,
                       !.interval_days = interval_days,
                       !.next_review = t + interval_days * TicksPerDay]

\* a faulty update_review that saves before it tests whether the id is known
update_review_saving_unknown(phrase_id, quality) ==
    /\ budget > 0
    /\ budget' = budget - 1
    /\ IF IndexOf(phrases, phrase_id) = 0
       THEN /\ last' = [op |-> "update_review", phrase_id |-> phrase_id,
                        quality |-> quality, known |-> FALSE, saved |-> TRUE]
            /\ file' = _save(phrases)
            /\ UNCHANGED <<phrases, now, reviews>>
       ELSE LET i == IndexOf(phrases, phrase_id)
            IN  /\ phrases' = [phrases EXCEPT ![i] = Reviewed(phrases[i], quality, now)]
                /\ file' = _save(phrases')
                /\ reviews' = [reviews EXCEPT ![i] =
                                  Append(@, [quality |-> quality, at |-> now,
                                             ease_factor |-> phrases'[i].ease_factor,
                                             interval_days |-> phrases'[i].interval_days,
                                             repetition |-> phrases'[i].repetition])]
                /\ last' = [op |-> "update_review", phrase_id |-> phrase_id,
                            quality |-> quality, known |-> TRUE, saved |-> TRUE,
                            before |-> phrases[i]]
                /\ UNCHANGED now

\* a faulty update_review that reschedules every stored phrase, not only the one
\* that phrase_id names
update_review_all(phrase_id, quality) ==
    /\ budget > 0
    /\ budget' = budget - 1
    /\ IF IndexOf(phrases, phrase_id) = 0
       THEN /\ last' = [op |-> "update_review", phrase_id |-> phrase_id,
                        quality |-> quality, known |-> FALSE, saved |-> FALSE]
            /\ UNCHANGED <<phrases, file, now, reviews>>
       ELSE LET i == IndexOf(phrases, phrase_id)
            IN  /\ phrases' = [j \in 1..Len(phrases) |-> Reviewed(phrases[j], quality, now)]
                /\ file' = _save(phrases')
                /\ reviews' = [reviews EXCEPT ![i] =
                                  Append(@, [quality |-> quality, at |-> now,
                                             ease_factor |-> phrases'[i].ease_factor,
                                             interval_days |-> phrases'[i].interval_days,
                                             repetition |-> phrases'[i].repetition])]
                /\ last' = [op |-> "update_review", phrase_id |-> phrase_id,
                            quality |-> quality, known |-> TRUE, saved |-> TRUE,
                            before |-> phrases[i]]
                /\ UNCHANGED now

\* update_review(phrase_id, quality)
update_review(phrase_id, quality) ==
    /\ budget > 0
    /\ budget' = budget - 1
    /\ IF IndexOf(phrases, phrase_id) = 0
       THEN /\ last' = [op |-> "update_review", phrase_id |-> phrase_id,
                        quality |-> quality, known |-> FALSE, saved |-> FALSE]
            /\ UNCHANGED <<phrases, file, now, reviews>>
       ELSE LET i == IndexOf(phrases, phrase_id)
            IN  /\ phrases' = [phrases EXCEPT ![i] = Reviewed(phrases[i], quality, now)]
                /\ file' = _save(phrases')
                /\ reviews' = [reviews EXCEPT ![i] =
                                  Append(@, [quality |-> quality, at |-> now,
                                             ease_factor |-> phrases'[i].ease_factor,
                                             interval_days |-> phrases'[i].interval_days,
                                             repetition |-> phrases'[i].repetition])]
                /\ last' = [op |-> "update_review", phrase_id |-> phrase_id,
                            quality |-> quality, known |-> TRUE, saved |-> TRUE,
                            before |-> phrases[i]]
                /\ UNCHANGED now

\* the ids of ps that ids names / does not name, in the order of ids
RECURSIVE Present(_, _)
Present(ps, ids) ==
    IF ids = <<>> THEN <<>>
    ELSE (IF IndexOf(ps, Head(ids)) # 0 THEN <<Head(ids)>> ELSE <<>>)
         \o Present(ps, Tail(ids))

RECURSIVE Absent(_, _)
Absent(ps, ids) ==
    IF ids = <<>> THEN <<>>
    ELSE (IF IndexOf(ps, Head(ids)) = 0 THEN <<Head(ids)>> ELSE <<>>)
         \o Absent(ps, Tail(ids))

\* the dict without the keys that ids names
RECURSIVE Without(_, _)
Without(ps, ids) ==
    IF ps = <<>> THEN <<>>
    ELSE (IF \E k \in 1..Len(ids) : ids[k] = Head(ps).id THEN <<>> ELSE <<Head(ps)>>)
         \o Without(Tail(ps), ids)

\* the history of the phrases that Without keeps
RECURSIVE WithoutReviews(_, _, _)
WithoutReviews(ps, rs, ids) ==
    IF ps = <<>> THEN <<>>
    ELSE (IF \E k \in 1..Len(ids) : ids[k] = Head(ps).id THEN <<>> ELSE <<Head(rs)>>)
         \o WithoutReviews(Tail(ps), Tail(rs), ids)

\* a faulty remove_phrases that saves whether or not it removed anything
remove_phrases_saving_always(ids) ==
    LET removed == Present(phrases, ids)
        not_found == Absent(phrases, ids)
    IN  /\ phrases' = Without(phrases, ids)
        /\ file' = _save(phrases')
        /\ last' = [op |-> "remove_phrases", ids |-> ids, removed |-> removed,
                    not_found |-> not_found, saved |-> TRUE]
        /\ reviews' = WithoutReviews(phrases, reviews, ids)
        /\ UNCHANGED <<now, budget>>

\* remove_phrases(ids): the ids are partitioned by presence, the present ones are
\* deleted, and the store is saved once if any was deleted
remove_phrases(ids) ==
    LET removed == Present(phrases, ids)
        not_found == Absent(phrases, ids)
    IN  /\ phrases' = Without(phrases, ids)
        /\ file' = IF removed # <<>> THEN _save(phrases') ELSE file
        /\ last' = [op |-> "remove_phrases", ids |-> ids, removed |-> removed,
                    not_found |-> not_found, saved |-> removed # <<>>]
        /\ reviews' = WithoutReviews(phrases, reviews, ids)
        /\ UNCHANGED <<now, budget>>

\* the clock advances
Tick ==
    /\ budget > 0
    /\ budget' = budget - 1
    /\ now' = now + 1
    /\ last' = [op |-> "tick"]
    /\ UNCHANGED <<phrases, file, reviews>>

-----------------------------------------------------------------------------
(* Queries: get_due_phrases *)

\* next_review = None, which the sort key replaces by "", the least of all strings
NoReview == -1

\* phrase.next_review and phrase.next_review <= now
IsDue(phrase, t) == phrase.next_review # NoReview /\ phrase.next_review <= t

\* the list comprehension: the due phrases in dict order
due_phrases(ps, t) == SelectSeq(ps, LAMBDA phrase : IsDue(phrase, t))

\* key=lambda p: p.next_review if p.next_review else ""
SortKey(p) == IF p.next_review # NoReview THEN p.next_review ELSE NoReview

\* a faulty sort that returns the latest scheduled phrase first
RECURSIVE sorted_phrases_descending(_)
sorted_phrases_descending(ps) ==
    IF ps = <<>> THEN <<>>
    ELSE LET rest == sorted_phrases_descending(SubSeq(ps, 1, Len(ps) - 1))
             p == ps[Len(ps)]
             n == Cardinality({k \in 1..Len(rest) : SortKey(rest[k]) >= SortKey(p)})
         IN  SubSeq(rest, 1, n) \o <<p>> \o SubSeq(rest, n + 1, Len(rest))

\* sorted(self.phrases.values(), key=...): ascending and stable (phrases with equal
\* keys keep their dict order)
RECURSIVE sorted_phrases(_)
sorted_phrases(ps) ==
    IF ps = <<>> THEN <<>>
    ELSE LET rest == sorted_phrases(SubSeq(ps, 1, Len(ps) - 1))
             p == ps[Len(ps)]
             n == Cardinality({k \in 1..Len(rest) : SortKey(rest[k]) <= SortKey(p)})
         IN  SubSeq(rest, 1, n) \o <<p>> \o SubSeq(rest, n + 1, Len(rest))

\* the limit argument: <<>> is None, <<n>> the integer n
NoLimit == <<>>

\* due_phrases[:limit], and due_phrases when limit is None
Slice(seq, limit) ==
    IF limit = NoLimit THEN seq
    ELSE IF limit[1] >= 0
         THEN SubSeq(seq, 1, IF limit[1] < Len(seq) THEN limit[1] ELSE Len(seq))
         ELSE SubSeq(seq, 1, Len(seq) + limit[1])

\* a faulty get_due_phrases without the fallback to the earliest phrases
DueResult_no_fallback(ps, t, limit) ==
    Slice(due_phrases(ps, t), limit)

\* what get_due_phrases(limit) returns at time t
DueResult(ps, t, limit) ==
    LET due == due_phrases(ps, t)
    IN  Slice(IF due = <<>> /\ ps # <<>> THEN sorted_phrases(ps) ELSE due, limit)

\* get_due_phrases(limit): a query, the store is left as it is
get_due_phrases(limit) ==
    /\ last' = [op |-> "get_due_phrases", limit |-> limit, at |-> now,
                result |-> DueResult(phrases, now, limit)]
    /\ UNCHANGED <<phrases, file, now, budget, reviews>>

-----------------------------------------------------------------------------
(* Queries: get_vocabulary *)

\* the characters of the lower-cased phrases in the order of their code points
CodePoints ==
    <<"\t", "\n", " ", "a", "b", "c", "d", "e", "f", "g", "h", "i", "j", "k", "l", "m",
      "n", "o", "p", "q", "r", "s", "t", "u", "v", "w", "x", "y", "z", "U+00FC",
      "U+0308">>

\* ord(c), up to an order-preserving renumbering
ord(c) == CHOOSE i \in 1..Len(CodePoints) : CodePoints[i] = c

\* a <= b for two str: lexicographic by code point, a prefix first
RECURSIVE StrLeq(_, _)
StrLeq(a, b) ==
    IF a = <<>> THEN TRUE
    ELSE IF b = <<>> THEN FALSE
    ELSE IF a[1] = b[1] THEN StrLeq(Tail(a), Tail(b))
    ELSE ord(a[1]) < ord(b[1])

\* int(s) for a string of decimal digits
RECURSIVE int(_)
int(s) ==
    IF s = <<>> THEN 0
    ELSE 10 * int(SubSeq(s, 1, Len(s) - 1))
         + (CHOOSE d \in 0..9 : Digits[d + 1] = s[Len(s)])

\* alphabetical_key, mastery_key (ease_factor in hundredths) and id_key
alphabetical_key(p) == lower(p.german)
mastery_key(p) == p.ease_factor * p.interval_days
id_key(p) == int(p.id)

\* key_func(p) <= key_func(q) for the key function that sort_by selects: only
\* "alphabetical" and "mastery" are tested for, anything else sorts by id
KeyLeq(sort_by, p, q) ==
    IF sort_by = "alphabetical" THEN StrLeq(alphabetical_key(p), alphabetical_key(q))
    ELSE IF sort_by = "mastery" THEN mastery_key(p) <= mastery_key(q)
    ELSE id_key(p) <= id_key(q)

\* sorted(phrases_list, key=key_func, reverse=...): stable in both directions
RECURSIVE sorted_by(_, _, _)
sorted_by(ps, sort_by, reverse) ==
    IF ps = <<>> THEN <<>>
    ELSE LET rest == sorted_by(SubSeq(ps, 1, Len(ps) - 1), sort_by, reverse)
             p == ps[Len(ps)]
             n == Cardinality({k \in 1..Len(rest) :
                                  IF reverse THEN KeyLeq(sort_by, p, rest[k])
                                  ELSE KeyLeq(sort_by, rest[k], p)})
         IN  SubSeq(rest, 1, n) \o <<p>> \o SubSeq(rest, n + 1, Len(rest))

\* the cap on limit
MaxVocabulary == 2000

\* what get_vocabulary(limit, sort_by, ascending) returns
VocabularyResult(ps, limit, sort_by, ascending) ==
    Slice(sorted_by(ps, sort_by, ~ascending),
          <<IF limit < MaxVocabulary THEN limit ELSE MaxVocabulary>>)

\* get_vocabulary(limit, sort_by, ascending): a query, the store is left as it is
get_vocabulary(limit, sort_by, ascending) ==
    /\ last' = [op |-> "get_vocabulary", limit |-> limit, sort_by |-> sort_by,
                ascending |-> ascending,
                result |-> VocabularyResult(phrases, limit, sort_by, ascending)]
    /\ UNCHANGED <<phrases, file, now, budget, reviews>>

-----------------------------------------------------------------------------
(* The agent: class GermanLearningAgent (src/deubot/agent.py) *)

\* the names of the tools that self.tools declares to the model
DeclaredTools == {"save_phrase", "get_next_due_phrase", "show_review", "clear_history"}

\* the loop bound of process_message
max_iterations == 10

\* arguments.get("limit", 10)
DefaultLimit == 10

\* "Default limit: 10, maximum: 100": the maximum that the description of
\* get_next_due_phrases gives
MaximumLimit == 100

\* an item of response.output: a message with text, or a function call.  The
\* arguments of a call are kept as a tuple: <<german>> for save_phrase,
\* <<phrase_id>> for show_review, <<limit>> or <<>> (no limit given) for the
\* due-phrase tools, <<>> for clear_history
Message == [type |-> "message", name |-> "", arguments |-> <<>>, text |-> "text"]

FunctionCall(name, arguments) ==
    [type |-> "function_call", name |-> name, arguments |-> arguments, text |-> ""]

\* the call has an argument that is not a str: the integer limit
HasIntArgument(item) ==
    item.name \in {"get_next_due_phrase", "get_next_due_phrases"} /\ item.arguments # <<>>

\* no call was dispatched by the last step, and no card is shown
NoCall == [name |-> "", raised |-> FALSE]
NoCard == <<>>

\* ToolCallResult(result, terminal, user_outputs); a result is its text and the
\* values formatted into it
ToolCallResult(text, values, terminal, user_outputs) ==
    [result |-> [text |-> text, values |-> values], terminal |-> terminal,
     user_outputs |-> user_outputs]

\* _execute_tool(tool_name, arguments) as a value; `saved` is what add_phrase
\* returned when the tool is save_phrase.  Clearing self.messages for clear_history
\* is done by the step that dispatches
_execute_tool(tool_name, arguments, saved) ==
    IF tool_name = "save_phrase"
    THEN ToolCallResult("Phrase saved successfully with ID", <<saved>>, TRUE, <<>>)
    ELSE IF tool_name = "get_next_due_phrases"
    THEN LET limit == IF arguments = <<>> THEN DefaultLimit ELSE arguments[1]
             due == DueResult(phrases, now, <<limit>>)
         IN  IF due # <<>>
             THEN ToolCallResult("Found phrase(s) due for review", due, FALSE, <<>>)
             ELSE ToolCallResult("No phrases due for review", <<>>, FALSE, <<>>)
    ELSE IF tool_name = "show_review"
    THEN ToolCallResult("Review shown to user. Waiting for user rating.", <<>>, TRUE,
                        <<[phrase_id |-> arguments[1]]>>)
    ELSE IF tool_name = "clear_history"
    THEN ToolCallResult("True", <<>>, TRUE, <<>>)
    ELSE ToolCallResult("Unknown tool", <<>>, TRUE, <<>>)

\* a faulty test that lets every review card through
YieldsReview_always(review_shown_in_turn) == TRUE

\* `if not review_shown_in_turn`: the card is yielded
YieldsReview(review_shown_in_turn) == ~review_shown_in_turn

\* the result string sent back to the model for a call, given the flag
\* review_shown_in_turn as it is after the call's outputs were handled
llm_result(tool_call_result, review_shown_in_turn) ==
    IF tool_call_result.user_outputs # <<>>
    THEN (IF ~review_shown_in_turn
          THEN tool_call_result.result
          ELSE [text |-> "Review NOT shown - only one review can be displayed per turn. This review was skipped.",
                values |-> <<>>])
    ELSE tool_call_result.result

\* the text of response.output: its message items concatenated
RECURSIVE response_text(_)
response_text(output) ==
    IF output = <<>> THEN <<>>
    ELSE (IF output[1].type = "message" THEN <<output[1].text>> ELSE <<>>)
         \o response_text(Tail(output))

\* GermanLearningAgent(...): no conversation yet, process_message not running
NewAgent(enable_logs) ==
    [messages |-> <<>>, enable_logs |-> enable_logs, pc |-> "idle",
     caller |-> "", iterations |-> 0, requests |-> 0,
     review_shown_in_turn |-> FALSE, was_cleared |-> FALSE,
     has_continuation_tools |-> FALSE,
     response |-> [status |-> "", output |-> <<>>], item |-> 0,
     call |-> NoCall, yielded |-> <<>>, first_review |-> NoCard]

\* a faulty loop test that never looks at the number of iterations
Received_unbounded(a, response) ==
    IF response.status = "completed"
    THEN [a EXCEPT !.response = response, !.iterations = @ + 1,
                   !.has_continuation_tools = FALSE, !.item = 1, !.pc = "items",
                   !.call = NoCall]
    ELSE [a EXCEPT !.response = response, !.pc = "finish", !.call = NoCall]

\* the while test on a response that has just arrived: the loop body is entered
\* with the first output item, or left for the end of process_message
Received(a, response) ==
    IF response.status = "completed" /\ a.iterations < max_iterations
    THEN [a EXCEPT !.response = response, !.iterations = @ + 1,
                   !.has_continuation_tools = FALSE, !.item = 1, !.pc = "items",
                   !.call = NoCall]
    ELSE [a EXCEPT !.response = response, !.pc = "finish", !.call = NoCall]

\* process_message(user_message), up to the first response of the model; `caller`
\* is who iterates over the outputs: the bot's _handle_outputs, or a list
StartedTurn(a, user_message, caller, response) ==
    Received([a EXCEPT !.messages = Append(@, [role |-> "user", content |-> user_message]),
                       !.caller = caller, !.iterations = 0, !.requests = 1,
                       !.review_shown_in_turn = FALSE, !.was_cleared = FALSE,
                       !.yielded = <<>>, !.first_review = NoCard],
             response)

\* _show_review_card: the card becomes the active one (the bot keeps every card it
\* has sent, with the number of ratings its buttons have led to)
ShownCard(b, review) ==
    [b EXCEPT !.review_state = <<review>>,
              !.cards = Append(@, [phrase_id |-> review.phrase_id, revealed |-> FALSE,
                                   ratings |-> 0])]

\* one item of response.output inside the for loop of process_message
DispatchItem ==
    /\ agent.pc = "items"
    /\ agent.item <= Len(agent.response.output)
    /\ LET item == agent.response.output[agent.item]
       IN  IF item.type # "function_call"
           THEN /\ agent' = [agent EXCEPT !.item = @ + 1, !.call = NoCall]
                /\ UNCHANGED <<store, bot>>
           ELSE IF agent.enable_logs /\ HasIntArgument(item)
           THEN \* f"{k}={v[:10]}" raises TypeError on an int: process_message ends
                /\ agent' = [agent EXCEPT !.pc = "idle",
                                          !.call = [name |-> item.name, raised |-> TRUE]]
                /\ UNCHANGED <<store, bot>>
           ELSE /\ IF item.name = "save_phrase"
                   THEN add_phrase(item.arguments[1])
                   ELSE UNCHANGED store
                /\ LET tool_call_result ==
                           _execute_tool(item.name, item.arguments,
                                         IF item.name = "save_phrase"
                                         THEN <<last'.id, last'.is_new, last'.existing>>
                                         ELSE <<>>)
                       is_review == tool_call_result.user_outputs # <<>>
                       yields == is_review /\ YieldsReview(agent.review_shown_in_turn)
                       shown == agent.review_shown_in_turn \/ yields
                   IN  /\ agent' =
                             [agent EXCEPT
                                !.messages = IF item.name = "clear_history" THEN <<>> ELSE @,
                                !.was_cleared = @ \/ item.name = "clear_history",
                                !.review_shown_in_turn = shown,
                                !.yielded = IF yields
                                            THEN Append(@, tool_call_result.user_outputs[1])
                                            ELSE @,
                                !.first_review = IF is_review /\ @ = NoCard
                                                 THEN <<tool_call_result.user_outputs[1]>>
                                                 ELSE @,
                                !.has_continuation_tools = @ \/ ~tool_call_result.terminal,
                                !.item = @ + 1,
                                !.call = [name |-> item.name, raised |-> FALSE,
                                          result |-> tool_call_result.result,
                                          is_review |-> is_review, yielded |-> yields,
                                          llm_result |-> llm_result(tool_call_result, shown)]]
                       /\ bot' = IF yields /\ agent.caller = "bot"
                                 THEN ShownCard(bot, tool_call_result.user_outputs[1])
                                 ELSE bot

\* the end of the for loop: break when no tool asked to continue, else the next
\* request to the model, answered by `response`, and the while test on it
EndIteration(response) ==
    /\ agent.pc = "items"
    /\ agent.item > Len(agent.response.output)
    /\ agent' = IF ~agent.has_continuation_tools
                THEN [agent EXCEPT !.pc = "finish", !.call = NoCall]
                ELSE Received([agent EXCEPT !.requests = @ + 1], response)
    /\ UNCHANGED <<store, bot>>

\* the end of process_message: the text of the last response is added to the
\* history, unless the history was cleared, and yielded as a MessageOutput
FinishTurn ==
    /\ agent.pc = "finish"
    /\ LET text == response_text(agent.response.output)
       IN  agent' = [agent EXCEPT
                        !.messages = IF ~agent.was_cleared /\ text # <<>>
                                     THEN Append(@, [role |-> "assistant", content |-> text])
                                     ELSE @,
                        !.pc = "idle", !.call = NoCall]
    /\ UNCHANGED <<store, bot>>

\* process_message(user_message) called directly, its outputs collected in a list
process_message(user_message, response) ==
    /\ agent.pc = "idle"
    /\ budget > 0
    /\ budget' = budget - 1
    /\ agent' = StartedTurn(agent, user_message, "list", response)
    /\ UNCHANGED <<phrases, file, now, last, reviews, bot>>

-----------------------------------------------------------------------------
(* The bot: class DeuBot (src/deubot/bot.py) *)

\* who an update comes from: the allowed user, a user with another id, or no user
Users == {"allowed", "stranger", "nobody"}

\* DeuBot(...): no active card, no card sent, no update handled
NewBot ==
    [review_state |-> NoCard, cards |-> <<>>, debug_enabled |-> FALSE,
     last_reset |-> NoReview, update |-> [id |-> 0, kind |-> "", user |-> "", card |-> 0]]

\* the bot has taken the next update from the queue: a message or a command
\* (card 0), or the press of a button of the card sent as the card-th one
Update(b, kind, user, card) ==
    [b EXCEPT !.update = [id |-> @.id + 1, kind |-> kind, user |-> user, card |-> card]]

\* AuthFilter.filter: the filter of every command and message handler
AuthFilter(user) == user # "nobody" /\ user = "allowed"

\* a faulty check that lets the callbacks of every user through
CallbackAuthorized_any_user(user) == user # "nobody"

\* the checks at the head of handle_callback
CallbackAuthorized(user) == user # "nobody" /\ user = "allowed"

\* _should_reset_daily
_should_reset_daily ==
    bot.last_reset = NoReview \/ now - bot.last_reset > TicksPerDay

\* the guard of _handle_reveal and of _handle_quality: a card is active and it is
\* a card of this phrase
ActiveFor(phrase_id) ==
    bot.review_state # NoCard /\ bot.review_state[1].phrase_id = phrase_id

\* handle_message: a text message; the history is cleared once a day, then the
\* agent processes the text
handle_message(user, response) ==
    /\ agent.pc = "idle"
    /\ budget > 0
    /\ budget' = budget - 1
    /\ IF AuthFilter(user)
       THEN /\ agent' = StartedTurn(IF _should_reset_daily
                                    THEN [agent EXCEPT !.messages = <<>>]
                                    ELSE agent,
                                    "text", "bot", response)
            /\ bot' = Update([bot EXCEPT !.last_reset = IF _should_reset_daily
                                                        THEN now ELSE @],
                             "message", user, 0)
       ELSE /\ agent' = agent
            /\ bot' = Update(bot, "message", user, 0)
    /\ UNCHANGED <<phrases, file, now, last, reviews>>

\* the command handlers: /start and /clear clear the history, /stats only reads
\* the store, /review starts a turn of the agent, /debug toggles the logging
command(user, name, response) ==
    /\ agent.pc = "idle"
    /\ budget > 0
    /\ budget' = budget - 1
    /\ IF ~AuthFilter(user) \/ name = "stats"
       THEN /\ agent' = agent
            /\ bot' = Update(bot, name, user, 0)
       ELSE IF name \in {"start", "clear"}
       THEN /\ agent' = [agent EXCEPT !.messages = <<>>]
            /\ bot' = Update([bot EXCEPT !.last_reset = now], name, user, 0)
       ELSE IF name = "review"
       THEN /\ agent' = StartedTurn(agent, "I want to start a review session", "bot",
                                    response)
            /\ bot' = Update(bot, name, user, 0)
       ELSE /\ agent' = [agent EXCEPT !.enable_logs = ~bot.debug_enabled]
            /\ bot' = Update([bot EXCEPT !.debug_enabled = ~@], name, user, 0)
    /\ UNCHANGED <<phrases, file, now, last, reviews>>

\* handle_callback on the reveal button of the card sent as the c-th one
reveal(user, c) ==
    /\ agent.pc = "idle"
    /\ budget > 0
    /\ budget' = budget - 1
    /\ bot' = Update(IF CallbackAuthorized(user) /\ ActiveFor(bot.cards[c].phrase_id)
                     THEN [bot EXCEPT !.cards[c].revealed = TRUE]
                     ELSE bot,
                     "reveal", user, c)
    /\ UNCHANGED <<phrases, file, now, last, reviews, agent>>

\* handle_callback on a rating button of the card sent as the c-th one: the
\* phrase is rated, the card is no longer active, and the agent is told
quality_callback(user, c, quality, response) ==
    /\ agent.pc = "idle"
    /\ bot.cards[c].revealed
    /\ IF CallbackAuthorized(user) /\ ActiveFor(bot.cards[c].phrase_id)
       THEN /\ update_review(bot.cards[c].phrase_id, quality)
            /\ bot' = Update([bot EXCEPT !.review_state = NoCard,
                                         !.cards[c].ratings = @ + 1],
                             "quality", user, c)
            /\ agent' = StartedTurn(agent, "REVIEWED", "bot", response)
       ELSE /\ budget > 0
            /\ budget' = budget - 1
            /\ bot' = Update(bot, "quality", user, c)
            /\ UNCHANGED <<phrases, file, now, last, reviews, agent>>

-----------------------------------------------------------------------------
(* Specifications *)

\* the ids offered to update_review and remove_phrases: those the store can hold
\* and one it cannot
IdPool == {str(n) : n \in 1..(MaxPhrases + 1)}

\* the id lists offered to remove_phrases: one id, or two different ones
IdLists ==
    {<<a>> : a \in IdPool} \cup
    {<<str(c[1]), str(c[2])>> :
        c \in {d \in (1..(MaxPhrases + 1)) \X (1..(MaxPhrases + 1)) : d[1] < d[2]}}

\* PhrasesDB(db_path) on a path where no file exists yet
Init ==
    /\ phrases = <<>>
    /\ file = <<>>
    /\ now = 0
    /\ budget = MaxSteps
    /\ last = [op |-> "init"]
    /\ reviews = <<>>
    /\ agent = NewAgent(TRUE)
    /\ bot = NewBot

Next ==
    \/ \E german \in Pool : add_phrase(german) /\ UNCHANGED <<agent, bot>>
    \/ \E phrase_id \in IdPool, quality \in Ratings : update_review(phrase_id, quality) /\ UNCHANGED <<agent, bot>>
    \/ \E ids \in IdLists : remove_phrases(ids) /\ UNCHANGED <<agent, bot>>
    \/ Tick /\ UNCHANGED <<agent, bot>>

Spec == Init /\ [][Next]_vars

\* one phrase, reviewed repeatedly
SchedInit ==
    /\ phrases = <<>>
    /\ file = <<>>
    /\ now = 0
    /\ budget = SchedSteps
    /\ last = [op |-> "init"]
    /\ reviews = <<>>
    /\ agent = NewAgent(TRUE)
    /\ bot = NewBot

SchedNext ==
    \/ \E german \in SchedPool : add_phrase(german) /\ UNCHANGED <<agent, bot>>
    \/ \E phrase_id \in {str(1), str(2)}, quality \in Qualities :
           update_review(phrase_id, quality) /\ UNCHANGED <<agent, bot>>
    \/ Tick /\ UNCHANGED <<agent, bot>>

SchedSpec == SchedInit /\ [][SchedNext]_vars

\* the limits offered to get_due_phrases: none, and the maximum numbers of phrases
\* from 0 to one more than the store can hold
Limits == {NoLimit} \cup {<<n>> : n \in 0..(MaxPhrases + 1)}

\* several phrases, reviewed at different times and queried for the due ones
DueInit ==
    /\ phrases = <<>>
    /\ file = <<>>
    /\ now = 0
    /\ budget = DueSteps
    /\ last = [op |-> "init"]
    /\ reviews = <<>>
    /\ agent = NewAgent(TRUE)
    /\ bot = NewBot

DueNext ==
    \/ \E german \in DuePool : add_phrase(german) /\ UNCHANGED <<agent, bot>>
    \/ \E phrase_id \in IdPool, quality \in DueRatings : update_review(phrase_id, quality) /\ UNCHANGED <<agent, bot>>
    \/ \E limit \in Limits : get_due_phrases(limit) /\ UNCHANGED <<agent, bot>>
    \/ Tick /\ UNCHANGED <<agent, bot>>

DueSpec == DueInit /\ [][DueNext]_vars

\* the sort orders offered to get_vocabulary: those of the store and the one
\* that the tool schema of src/deubot/tools.py offers for the mastery order
SortOrders == {"alphabetical", "mastery", "proficiency", "id"}

\* the limits offered to get_vocabulary: the default, one above the cap, and 1
VocabLimits == {1, 100, MaxVocabulary + 1}

\* several phrases, some reviewed, listed in the orders of get_vocabulary
VocabNext ==
    \/ \E german \in VocabPool : add_phrase(german) /\ UNCHANGED <<agent, bot>>
    \/ \E phrase_id \in IdPool, quality \in Ratings : update_review(phrase_id, quality) /\ UNCHANGED <<agent, bot>>
    \/ \E limit \in VocabLimits, sort_by \in SortOrders, ascending \in BOOLEAN :
           get_vocabulary(limit, sort_by, ascending) /\ UNCHANGED <<agent, bot>>

VocabSpec == Init /\ [][VocabNext]_vars

\* one phrase, rated with the bot's buttons only
ButtonNext ==
    \/ \E german \in SchedPool : add_phrase(german) /\ UNCHANGED <<agent, bot>>
    \/ \E phrase_id \in {str(1), str(2)}, quality \in ButtonQualities :
           update_review(phrase_id, quality) /\ UNCHANGED <<agent, bot>>
    \/ Tick /\ UNCHANGED <<agent, bot>>

ButtonSpec == SchedInit /\ [][ButtonNext]_vars

\* what the model is taken to answer: nothing, or up to two items out of a message
\* and calls of the declared tools and of the tool names that _execute_tool knows
AgentItems ==
    {Message,
     FunctionCall("save_phrase", <<Hund>>),
     FunctionCall("get_next_due_phrase", <<DefaultLimit>>),
     FunctionCall("get_next_due_phrases", <<DefaultLimit>>),
     FunctionCall("get_next_due_phrases", <<>>),
     FunctionCall("show_review", <<str(1)>>),
     FunctionCall("show_review", <<str(2)>>),
     FunctionCall("clear_history", <<>>)}

AgentResponses ==
    {[status |-> "failed", output |-> <<>>]} \cup
    {[status |-> "completed", output |-> output] :
        output \in {<<>>} \cup {<<a>> : a \in AgentItems}
                          \cup {<<a, b>> : a \in AgentItems, b \in AgentItems}}

\* the agent on its own: process_message on user messages, over a store that is
\* new or was loaded with one phrase
AgentInit ==
    /\ file \in {<<>>, _save(<<Phrase(str(1), Tuer, 0)>>)}
    /\ phrases = _load(file)
    /\ now = 0
    /\ budget = AgentSteps
    /\ last = [op |-> "init"]
    /\ reviews = [i \in 1..Len(phrases) |-> <<>>]
    /\ agent \in {NewAgent(enable_logs) : enable_logs \in BOOLEAN}
    /\ bot = NewBot

AgentNext ==
    \/ \E response \in AgentResponses : process_message("message", response)
    \/ DispatchItem
    \/ \E response \in AgentResponses : EndIteration(response)
    \/ FinishTurn

AgentSpec == AgentInit /\ [][AgentNext]_vars

\* a store that holds one phrase more than the documented maximum of a batch: the
\* two-letter words "aa", "ab", ..., all added at time 0 and never reviewed
TwoLetters(i) == <<LOWER[((i - 1) \div 26) + 1], LOWER[((i - 1) % 26) + 1]>>

LargeStore == [i \in 1..(MaximumLimit + 1) |-> Phrase(str(i), TwoLetters(i), 0)]

LimitArguments == {<<>>, <<MaximumLimit>>, <<MaximumLimit + 1>>, <<MaximumLimit + 50>>}

LimitResponses ==
    {[status |-> "failed", output |-> <<>>]} \cup
    {[status |-> "completed", output |-> <<a>>] :
        a \in {Message} \cup {FunctionCall("get_next_due_phrases", limit) :
                                  limit \in LimitArguments}}

\* the agent over the large store as its file holds it, the model asking for
\* batches of several sizes
LimitInit ==
    /\ phrases = LargeStore
    /\ file = _save(phrases)
    /\ now = 0
    /\ budget = AgentSteps
    /\ last = [op |-> "init"]
    /\ reviews = [i \in 1..Len(phrases) |-> <<>>]
    /\ agent \in {NewAgent(enable_logs) : enable_logs \in BOOLEAN}
    /\ bot = NewBot

LimitNext ==
    \/ \E response \in LimitResponses : process_message("message", response)
    \/ DispatchItem
    \/ \E response \in LimitResponses : EndIteration(response)
    \/ FinishTurn

LimitSpec == LimitInit /\ [][LimitNext]_vars

\* a review session as the tests run it: phrases are added, the user asks for a
\* review, and the store is updated with the rating between the turns
SessionResponses ==
    {[status |-> "failed", output |-> <<>>]} \cup
    {[status |-> "completed", output |-> <<a>>] :
        a \in {Message,
               FunctionCall("get_next_due_phrases", <<DefaultLimit>>),
               FunctionCall("show_review", <<str(1)>>)}}

SessionInit ==
    /\ phrases = <<>>
    /\ file = <<>>
    /\ now = 0
    /\ budget = SessionSteps
    /\ last = [op |-> "init"]
    /\ reviews = <<>>
    /\ agent \in {NewAgent(enable_logs) : enable_logs \in BOOLEAN}
    /\ bot = NewBot

SessionNext ==
    \/ \E german \in {Tuer, Hund} :
           agent.pc = "idle" /\ add_phrase(german) /\ UNCHANGED <<agent, bot>>
    \/ \E phrase_id \in IdPool, quality \in {3} :
           agent.pc = "idle" /\ update_review(phrase_id, quality) /\ UNCHANGED <<agent, bot>>
    \/ agent.pc = "idle" /\ Tick /\ UNCHANGED <<agent, bot>>
    \/ \E response \in SessionResponses : process_message("message", response)
    \/ DispatchItem
    \/ \E response \in SessionResponses : EndIteration(response)
    \/ FinishTurn

SessionSpec == SessionInit /\ [][SessionNext]_vars

\* what the model is taken to answer to the bot's user
BotResponses ==
    {[status |-> "completed", output |-> <<a>>] :
        a \in {Message,
               FunctionCall("show_review", <<str(1)>>),
               FunctionCall("show_review", <<str(2)>>)}}

Commands == {"start", "clear", "stats", "review", "debug"}

\* the bot over a store loaded with one phrase: updates from the three kinds of
\* users are handled one after the other
BotInit ==
    /\ file = _save(<<Phrase(str(1), Tuer, 0)>>)
    /\ phrases = _load(file)
    /\ now = 0
    /\ budget = BotSteps
    /\ last = [op |-> "init"]
    /\ reviews = [i \in 1..Len(phrases) |-> <<>>]
    /\ agent \in {NewAgent(enable_logs) : enable_logs \in BOOLEAN}
    /\ bot = NewBot

BotNext ==
    \/ \E user \in Users, response \in BotResponses : handle_message(user, response)
    \/ \E user \in Users, name \in Commands, response \in BotResponses :
           command(user, name, response)
    \/ \E user \in Users, c \in 1..Len(bot.cards) : reveal(user, c)
    \/ \E user \in Users, c \in 1..Len(bot.cards), quality \in ButtonQualities,
           response \in BotResponses : quality_callback(user, c, quality, response)
    \/ DispatchItem
    \/ \E response \in BotResponses : EndIteration(response)
    \/ FinishTurn
    \/ agent.pc = "idle" /\ Tick /\ UNCHANGED <<agent, bot>>

BotSpec == BotInit /\ [][BotNext]_vars

-----------------------------------------------------------------------------
(* Properties of de-duplication, checked under Spec *)

\* a step of add_phrase, by its record in last'
IsAddStep == last'.op = "add_phrase"

\* some stored phrase is similar to german
HasSimilar(ps, german) == \E i \in 1..Len(ps) : Similar[german, ps[i].german]

\* the words of a text, compared without regard to letter case and whitespace
Words(text) == split(lower(text))

\* the articles as words
ArticleWords == {SubSeq(ARTICLES[i], 1, Len(ARTICLES[i]) - 1) : i \in 1..Len(ARTICLES)}

\* v differs from p only in letter case, in whitespace, or in the presence or
\* choice of one leading article
Variant(p, v) ==
    LET wp == Words(p)
        wv == Words(v)
    IN  \/ wp = wv
        \/ wp # <<>> /\ wp[1] \in ArticleWords /\ wv = Tail(wp)
        \/ wv # <<>> /\ wv[1] \in ArticleWords /\ wp = Tail(wv)
        \/ /\ wp # <<>> /\ wv # <<>>
           /\ wp[1] \in ArticleWords /\ wv[1] \in ArticleWords
           /\ Tail(wp) = Tail(wv)

\* what follows the article is not empty and does not itself begin with an
\* article that is followed by a further word
PlainRest(rest) ==
    /\ rest # <<>>
    /\ ~(Len(rest) >= 2 /\ rest[1] \in ArticleWords)

\* Variant, where the article that is added, dropped or exchanged is followed by
\* a PlainRest
OneArticleVariant(p, v) ==
    LET wp == Words(p)
        wv == Words(v)
    IN  \/ wp = wv
        \/ wp # <<>> /\ wp[1] \in ArticleWords /\ wv = Tail(wp) /\ PlainRest(wv)
        \/ wv # <<>> /\ wv[1] \in ArticleWords /\ wp = Tail(wv) /\ PlainRest(wp)
        \/ /\ wp # <<>> /\ wv # <<>>
           /\ wp[1] \in ArticleWords /\ wv[1] \in ArticleWords
           /\ Tail(wp) = Tail(wv) /\ PlainRest(Tail(wp))

\* C1 (as claimed): add_phrase(s) on a store that holds nothing similar to s makes
\* one new record (is_new, the size grows by exactly 1), and every further
\* add_phrase(s) returns the same id with is_new = False and adds nothing.
C1_IdempotentDedup ==
    [][/\ (IsAddStep /\ ~HasSimilar(phrases, last'.german))
            => (last'.is_new /\ Len(phrases') = Len(phrases) + 1)
       /\ (IsAddStep /\ last.op = "add_phrase" /\ last'.german = last.german)
            => (last'.id = last.id /\ ~last'.is_new /\ Len(phrases') = Len(phrases))
      ]_vars

\* C2 (as claimed): for a stored phrase p and every v that differs from p only in
\* letter case, whitespace, or the presence or choice of one leading article,
\* add_phrase(v) returns (p.id, False, p.german) and creates no record.
C2_NormalizationInvariance ==
    [][\A i \in 1..Len(phrases) :
          (IsAddStep /\ Variant(phrases[i].german, last'.german))
            => /\ last'.id = phrases[i].id
               /\ ~last'.is_new
               /\ last'.existing = phrases[i].german
               /\ phrases' = phrases
      ]_vars

\* C2 (amended): the same, for every v that differs from p only in letter case,
\* whitespace, or one leading article whose remainder is not empty and does not
\* itself begin with an article followed by a further word.
C2_NormalizationInvarianceOneArticle ==
    [][\A i \in 1..Len(phrases) :
          (IsAddStep /\ OneArticleVariant(phrases[i].german, last'.german))
            => /\ last'.id = phrases[i].id
               /\ ~last'.is_new
               /\ last'.existing = phrases[i].german
               /\ phrases' = phrases
      ]_vars

\* C2 witness: with two phrases stored, the one stored with its article was found
\* by the bare noun
C2_Witness ==
    /\ last.op = "add_phrase"
    /\ ~last.is_new
    /\ last.german = Hund
    /\ last.existing = DerHund
    /\ Len(phrases) = 2

C5_NewPhraseCreated ==
    [][(IsAddStep /\ ~HasSimilar(phrases, last'.german))
          => /\ last'.id = str(Len(phrases) + 1)
             /\ last'.is_new
             /\ last'.existing = None
             /\ phrases' = Append(phrases,
                                  [id |-> str(Len(phrases) + 1),
                                   german |-> last'.german,
                                   ease_factor |-> 250, interval_days |-> 0,
                                   repetition |-> 0, next_review |-> now])
      ]_vars

\* C6 (as claimed): an id that denotes a stored phrase never comes to denote
\* another phrase, and a new phrase gets an id that no stored phrase has.
C6_IdsNeverReassigned ==
    [][/\ \A i \in 1..Len(phrases), j \in 1..Len(phrases') :
             phrases[i].id = phrases'[j].id => phrases[i].german = phrases'[j].german
       /\ (IsAddStep /\ last'.is_new)
             => \A i \in 1..Len(phrases) : phrases[i].id # last'.id
      ]_vars

-----------------------------------------------------------------------------
(* Properties of the scheduler, checked under SchedSpec *)

\* the last step was update_review on a stored phrase
IsKnownReview == last.op = "update_review" /\ last.known

\* the reviewed phrase as it is now; last.before is that phrase before the call
ReviewedPhrase == phrases[IndexOf(phrases, last.phrase_id)]

\* C7: whatever qualities the reviews had, every stored phrase has
\* ease_factor >= 1.3.
C7_EaseFloor ==
    \A i \in 1..Len(phrases) : phrases[i].ease_factor >= 130

\* C7 witness: a review whose change would have taken the ease factor below 1.3
C7_Witness ==
    /\ IsKnownReview
    /\ last.quality > 5
    /\ last.before.ease_factor + EaseDelta(last.quality) < 130
    /\ ReviewedPhrase.ease_factor = 130

\* C8: update_review with quality < 3 sets repetition to 0 and interval_days to 1
\* and leaves ease_factor as it was before the call.
C8_FailureRule ==
    (IsKnownReview /\ last.quality < 3)
        => /\ ReviewedPhrase.repetition = 0
           /\ ReviewedPhrase.interval_days = 1
           /\ ReviewedPhrase.ease_factor = last.before.ease_factor

\* C8 witness: a failure after three successes that had lowered the ease factor
C8_Witness ==
    /\ IsKnownReview
    /\ last.quality < 3
    /\ last.before.repetition = 3
    /\ last.before.interval_days > 6
    /\ last.before.ease_factor < 250

\* C9: update_review with quality >= 3 increments repetition and sets
\* interval_days to 1 when the new repetition is 1, to 6 when it is 2, and
\* otherwise to floor(previous interval_days * new ease_factor).
C9_SuccessRule ==
    (IsKnownReview /\ last.quality >= 3)
        => /\ ReviewedPhrase.repetition = last.before.repetition + 1
           /\ ReviewedPhrase.interval_days =
                 CASE ReviewedPhrase.repetition = 1 -> 1
                   [] ReviewedPhrase.repetition = 2 -> 6
                   [] OTHER ->
                        (last.before.interval_days * ReviewedPhrase.ease_factor) \div 100

\* C9 witness: a third success in a row, where the old and the new ease factor
\* give different intervals
C9_Witness ==
    /\ IsKnownReview
    /\ last.quality >= 3
    /\ ReviewedPhrase.repetition = 3
    /\ ReviewedPhrase.interval_days
         # (last.before.interval_days * last.before.ease_factor) \div 100

\* the change of the ease factor that C10 states, in hundredths
C10_Change(q) ==
    CASE q = 3 -> -14
      [] q = 4 -> 0
      [] q = 5 -> 10
      [] OTHER -> 10 - (5 - q) * (8 + (5 - q) * 2)

\* C10: for quality q >= 3 the new ease_factor is max(1.3, old + change(q)) with
\* change -0.14, 0.00, +0.10 for q = 3, 4, 5; quality 5 strictly increases it and
\* quality 3 strictly decreases it when the old value is above 1.3.
C10_EaseUpdate ==
    (IsKnownReview /\ last.quality >= 3)
        => /\ ReviewedPhrase.ease_factor
                = Max(130, last.before.ease_factor + C10_Change(last.quality))
           /\ last.quality = 5
                => ReviewedPhrase.ease_factor > last.before.ease_factor
           /\ (last.quality = 3 /\ last.before.ease_factor > 130)
                => ReviewedPhrase.ease_factor < last.before.ease_factor

\* C10 witness: a quality-3 review of a phrase whose ease factor stood above the
\* floor by less than 0.14, so that the floor cut the decrease short
C10_Witness ==
    /\ IsKnownReview
    /\ last.quality = 3
    /\ last.before.ease_factor > 130
    /\ last.before.ease_factor < 144
    /\ ReviewedPhrase.ease_factor = 130

-----------------------------------------------------------------------------
(* Properties of a phrase's review history, checked under SchedSpec *)

\* the first three reviews of the phrase in slot i were all of quality 3
ThreeThrees(i) ==
    /\ Len(reviews[i]) >= 3
    /\ \A k \in 1..3 : reviews[i][k].quality = 3

\* C11 (as claimed): from the defaults, three update_review(quality=3) calls in a
\* row give the intervals 1, 6, floor(6 * ease_factor after the 2nd call) and the
\* repetitions 1, 2, 3.
C11_ThreeSuccesses ==
    \A i \in 1..Len(phrases) :
        ThreeThrees(i)
          => /\ reviews[i][1].interval_days = 1
             /\ reviews[i][2].interval_days = 6
             /\ reviews[i][3].interval_days = (6 * reviews[i][2].ease_factor) \div 100
             /\ \A k \in 1..3 : reviews[i][k].repetition = k

\* C11 (amended): the third interval is floor(6 * ease_factor after the 3rd call).
C11_ThreeSuccessesNewEase ==
    \A i \in 1..Len(phrases) :
        ThreeThrees(i)
          => /\ reviews[i][1].interval_days = 1
             /\ reviews[i][2].interval_days = 6
             /\ reviews[i][3].interval_days = (6 * reviews[i][3].ease_factor) \div 100
             /\ \A k \in 1..3 : reviews[i][k].repetition = k

\* C11 witness: a phrase right after its third quality-3 review in a row, where
\* the ease factors after the 2nd and after the 3rd call give different intervals
C11_Witness ==
    /\ Len(phrases) = 1
    /\ Len(reviews[1]) = 3
    /\ ThreeThrees(1)
    /\ phrases[1].repetition = 3
    /\ phrases[1].interval_days = reviews[1][3].interval_days
    /\ (6 * reviews[1][2].ease_factor) \div 100 # (6 * reviews[1][3].ease_factor) \div 100

\* C12 (as claimed): on a fresh store add_phrase("Guten Morgen") returns
\* ("1", True, None); add_phrase("guten morgen") then returns
\* ("1", False, "Guten Morgen"); and update_review("1", 4) then leaves one record
\* with interval_days = 1, repetition = 1 and ease_factor > 2.5.
C12_Scenario ==
    [][/\ (phrases = <<>> /\ IsAddStep /\ last'.german = GutenMorgen)
            => /\ last'.id = <<"1">> /\ last'.is_new /\ last'.existing = None
       /\ (Len(phrases) = 1
             /\ phrases[1] = Phrase(<<"1">>, GutenMorgen, phrases[1].next_review)
             /\ IsAddStep /\ last'.german = GutenMorgenLower)
            => /\ last'.id = <<"1">> /\ ~last'.is_new /\ last'.existing = GutenMorgen
       /\ (Len(phrases) = 1
             /\ phrases[1] = Phrase(<<"1">>, GutenMorgen, phrases[1].next_review)
             /\ last'.op = "update_review"
             /\ last'.phrase_id = <<"1">> /\ last'.quality = 4)
            => /\ Len(phrases') = 1
               /\ phrases'[1].interval_days = 1
               /\ phrases'[1].repetition = 1
               /\ phrases'[1].ease_factor > 250
      ]_vars

\* C12 (amended): the same, with ease_factor = 2.5 after the review.
C12_ScenarioEaseUnchanged ==
    [][/\ (phrases = <<>> /\ IsAddStep /\ last'.german = GutenMorgen)
            => /\ last'.id = <<"1">> /\ last'.is_new /\ last'.existing = None
       /\ (Len(phrases) = 1
             /\ phrases[1] = Phrase(<<"1">>, GutenMorgen, phrases[1].next_review)
             /\ IsAddStep /\ last'.german = GutenMorgenLower)
            => /\ last'.id = <<"1">> /\ ~last'.is_new /\ last'.existing = GutenMorgen
       /\ (Len(phrases) = 1
             /\ phrases[1] = Phrase(<<"1">>, GutenMorgen, phrases[1].next_review)
             /\ last'.op = "update_review"
             /\ last'.phrase_id = <<"1">> /\ last'.quality = 4)
            => /\ Len(phrases') = 1
               /\ phrases'[1].interval_days = 1
               /\ phrases'[1].repetition = 1
               /\ phrases'[1].ease_factor = 250
      ]_vars

\* C12 witness: "Guten Morgen", stored alone as phrase "1", right after its first
\* review, of quality 4
C12_Witness ==
    /\ Len(phrases) = 1
    /\ phrases[1].id = <<"1">>
    /\ phrases[1].german = GutenMorgen
    /\ IsKnownReview
    /\ last.quality = 4
    /\ last.before = Phrase(<<"1">>, GutenMorgen, last.before.next_review)
    /\ Len(reviews[1]) = 1

\* C13: a phrase has interval_days = 0 exactly when update_review was never
\* applied to it; after any review, of any quality, interval_days >= 1.
C13_IntervalZeroOnlyUnreviewed ==
    \A i \in 1..Len(phrases) :
        /\ phrases[i].interval_days = 0 <=> reviews[i] = <<>>
        /\ reviews[i] # <<>> => phrases[i].interval_days >= 1
        /\ \A k \in 1..Len(reviews[i]) : reviews[i][k].interval_days >= 1

\* C13 witness: a phrase whose ease factor is at the floor and whose interval a
\* failed review has just reset
C13_Witness ==
    /\ IsKnownReview
    /\ last.quality < 3
    /\ last.before.ease_factor = 130
    /\ last.before.interval_days > 1
    /\ ReviewedPhrase.interval_days = 1

-----------------------------------------------------------------------------
(* Properties of get_due_phrases, checked under DueSpec *)

\* the last step was get_due_phrases; it left the store and the clock as they are
IsDueQuery == last.op = "get_due_phrases"

\* the phrase in slot i is strictly due
StrictlyDue(i) == phrases[i].next_review # NoReview /\ phrases[i].next_review <= now

DueSlots == {i \in 1..Len(phrases) : StrictlyDue(i)}

\* slot j comes before slot i when the phrases are sorted by ascending next_review,
\* a null next_review first
SortsBefore(j, i) ==
    \/ phrases[j].next_review = NoReview /\ phrases[i].next_review # NoReview
    \/ /\ phrases[j].next_review # NoReview /\ phrases[i].next_review # NoReview
       /\ phrases[j].next_review < phrases[i].next_review
    \/ phrases[j].next_review = phrases[i].next_review /\ j < i

\* the slot of the k-th element of the reference sequence and its length
ReferenceSlot(k) ==
    IF DueSlots # {}
    THEN CHOOSE i \in DueSlots : Cardinality({j \in DueSlots : j < i}) = k - 1
    ELSE CHOOSE i \in 1..Len(phrases) :
             Cardinality({j \in 1..Len(phrases) : SortsBefore(j, i)}) = k - 1

ReferenceLen == IF DueSlots # {} THEN Cardinality(DueSlots) ELSE Len(phrases)

\* C16: when the store holds a phrase, get_due_phrases() without a limit or with
\* limit >= 1 returns at least one phrase, due or not; it returns the empty
\* sequence only when the store is empty.
C16_DueFallbackProgress ==
    (IsDueQuery /\ (last.limit = NoLimit \/ last.limit[1] >= 1))
        => (last.result = <<>> <=> phrases = <<>>)

\* C16 witness: a query without limit on a store of two phrases of which none is due
C16_Witness ==
    /\ IsDueQuery
    /\ last.limit = NoLimit
    /\ Len(phrases) = 2
    /\ DueSlots = {}
    /\ Len(last.result) = 2

\* C17: get_due_phrases(limit) is the first `limit` elements (all without a limit)
\* of the reference sequence: the strictly due phrases in insertion order when
\* there is one, else all phrases sorted by ascending next_review.
C17_DueReference ==
    IsDueQuery
        => /\ Len(last.result) =
                 IF last.limit = NoLimit \/ last.limit[1] > ReferenceLen
                 THEN ReferenceLen ELSE last.limit[1]
           /\ \A k \in 1..Len(last.result) :
                 last.result[k] = phrases[ReferenceSlot(k)]

\* C17 witness: no phrase is due, the phrase added second is scheduled earlier than
\* the first, and a limit of 1 returned just that phrase
C17_Witness ==
    /\ IsDueQuery
    /\ last.limit = <<1>>
    /\ Len(phrases) = 2
    /\ DueSlots = {}
    /\ phrases[2].next_review < phrases[1].next_review
    /\ last.result = <<phrases[2]>>

\* C18: the clock never goes backwards here, and a stored phrase is strictly due
\* exactly when it was never reviewed or at least interval_days days have passed
\* since its last update_review; after a review it is not due for at least a day.
C18_DueAfterInterval ==
    \A i \in 1..Len(phrases) :
        LET n == Len(reviews[i])
        IN  /\ StrictlyDue(i)
                <=> \/ n = 0
                    \/ now >= reviews[i][n].at + phrases[i].interval_days * TicksPerDay
            /\ (n > 0 /\ now < reviews[i][n].at + TicksPerDay) => ~StrictlyDue(i)

\* C18 witness: a phrase reviewed a second time is due again although it was
\* reviewed, while another phrase, never reviewed, is due since its creation
C18_Witness ==
    /\ Len(phrases) = 2
    /\ \E i \in 1..2 :
          /\ Len(reviews[i]) = 0 /\ StrictlyDue(i)
          /\ Len(reviews[3 - i]) > 0 /\ StrictlyDue(3 - i)
          /\ now > phrases[i].next_review

-----------------------------------------------------------------------------
(* Properties of update_review as an operation of the store, checked under Spec *)

\* a step of update_review, by its record in last'
IsReviewStep == last'.op = "update_review"

\* C14: update_review with an id that is not stored is a no-op: no phrase changes,
\* no record is created and nothing is written to the file.
C14_UnknownIdNoOp ==
    [][(IsReviewStep /\ \A i \in 1..Len(phrases) : phrases[i].id # last'.phrase_id)
          => /\ phrases' = phrases
             /\ file' = file
             /\ ~last'.saved
      ]_vars

\* C14 witness: a review of an id that is not stored has returned, the store
\* holding two phrases
C14_Witness ==
    /\ last.op = "update_review"
    /\ ~last.known
    /\ Len(phrases) = 2
    /\ \A i \in 1..Len(phrases) : phrases[i].id # last.phrase_id

\* C15: update_review on a stored id changes only ease_factor, interval_days,
\* repetition and next_review of that phrase: the stored ids stay the same, every
\* id keeps its german, and every other phrase stays as it is.
C15_ReviewFrame ==
    [][(IsReviewStep /\ \E i \in 1..Len(phrases) : phrases[i].id = last'.phrase_id)
          => /\ Len(phrases') = Len(phrases)
             /\ {phrases'[k].id : k \in 1..Len(phrases')}
                   = {phrases[j].id : j \in 1..Len(phrases)}
             /\ \A j \in 1..Len(phrases), k \in 1..Len(phrases') :
                   phrases[j].id = phrases'[k].id
                     => /\ phrases'[k].german = phrases[j].german
                        /\ phrases[j].id # last'.phrase_id => phrases'[k] = phrases[j]
      ]_vars

\* C15 witness: of two stored phrases the second was reviewed and rescheduled, the
\* first is as add_phrase created it
C15_Witness ==
    /\ IsKnownReview
    /\ Len(phrases) = 2
    /\ last.phrase_id = phrases[2].id
    /\ phrases[2].german = last.before.german
    /\ phrases[2].next_review # last.before.next_review
    /\ phrases[1].interval_days = 0

-----------------------------------------------------------------------------
(* Properties of remove_phrases (checked under Spec) and of persistence *)

\* the members of a list of ids
Ids(ids) == {ids[k] : k \in 1..Len(ids)}

StoredIds(ps) == {ps[j].id : j \in 1..Len(ps)}

\* C19: remove_phrases(ids) returns the ids that were stored as removed_ids and the
\* others as not_found_ids; the former are gone afterwards, the phrases whose ids
\* were not passed are unchanged, and the store is saved exactly when an id was
\* removed.
C19_RemovePartition ==
    [][last'.op = "remove_phrases"
          => /\ Ids(last'.removed) = Ids(last'.ids) \cap StoredIds(phrases)
             /\ Ids(last'.not_found) = Ids(last'.ids) \ StoredIds(phrases)
             /\ StoredIds(phrases') = StoredIds(phrases) \ Ids(last'.ids)
             /\ \A j \in 1..Len(phrases) :
                   phrases[j].id \notin Ids(last'.ids)
                     => \E k \in 1..Len(phrases') : phrases'[k] = phrases[j]
             /\ Len(phrases') = Cardinality(StoredIds(phrases'))
             /\ last'.saved <=> last'.removed # <<>>
             /\ file' = IF last'.removed # <<>> THEN _save(phrases') ELSE file
      ]_vars

\* C19 witness: of two ids one was removed and one was not found, and a phrase
\* whose id was not passed is still stored
C19_Witness ==
    /\ last.op = "remove_phrases"
    /\ Len(last.removed) = 1
    /\ Len(last.not_found) = 1
    /\ Len(phrases) = 1
    /\ phrases[1].id \notin Ids(last.ids)

\* C20: after every operation a fresh store loaded from the file holds exactly
\* the phrases in memory: the same ids, fields and order; so find_similar_phrase
\* answers alike on both.
C20_Durability ==
    /\ _load(file) = phrases
    /\ \A german \in DuePool :
          find_similar_phrase(_load(file), german) = find_similar_phrase(phrases, german)

\* C20 witness: two phrases are stored and the second has just been reviewed; the
\* file holds its new schedule
C20_Witness ==
    /\ IsKnownReview
    /\ Len(phrases) = 2
    /\ last.phrase_id = phrases[2].id
    /\ Len(file) = 2
    /\ file[2]._id = last.phrase_id
    /\ file[2].interval_days = 1
    /\ file[2].next_review > now

-----------------------------------------------------------------------------
(* Properties of get_vocabulary (checked under VocabSpec) and of the ratings that
   the bot's buttons give (checked under ButtonSpec) *)

\* C21 (as claimed): get_vocabulary with sort_by = "proficiency" returns the
\* phrases ordered by ease_factor * interval_days, lowest first when ascending
\* and highest first otherwise.
C21_ProficiencyOrder ==
    (last.op = "get_vocabulary" /\ last.sort_by = "proficiency")
        => \A k \in 1..(Len(last.result) - 1) :
              LET a == last.result[k].ease_factor * last.result[k].interval_days
                  b == last.result[k + 1].ease_factor * last.result[k + 1].interval_days
              IN  IF last.ascending THEN a <= b ELSE a >= b

\* C26: when every rating is one of the buttons' 1..4, no review increases the
\* ease_factor of a phrase, and it stays within [1.3, 2.5].
C26_ButtonsNeverRaiseEase ==
    [][\A i \in 1..Len(phrases') :
          /\ phrases'[i].ease_factor >= 130
          /\ phrases'[i].ease_factor <= 250
          /\ i <= Len(phrases) => phrases'[i].ease_factor <= phrases[i].ease_factor
      ]_vars

\* C26 witness: a phrase rated Good and then Easy: the first rating lowered its
\* ease factor and the second left it there
C26_Witness ==
    /\ IsKnownReview
    /\ last.quality = 4
    /\ last.before.ease_factor < 250
    /\ ReviewedPhrase.ease_factor = last.before.ease_factor
    /\ \E k \in 1..Len(reviews[1]) : reviews[1][k].quality = 3

-----------------------------------------------------------------------------
(* Properties of the agent's turn, checked under AgentSpec *)

\* the last step dispatched a tool call (and the logging did not raise)
Dispatched == agent.call.name # "" /\ ~agent.call.raised

ReviewShownText == "Review shown to user. Waiting for user rating."
ReviewNotShownText ==
    "Review NOT shown - only one review can be displayed per turn. This review was skipped."

\* C23: within one process_message at most one ShowReviewOutput is yielded, and
\* it is the one of the first show_review call of the turn, whatever the number of
\* show_review calls in the same or in later iterations.
C23_OneCardPerTurn ==
    /\ Len(agent.yielded) <= 1
    /\ agent.yielded # <<>> => <<agent.yielded[1]>> = agent.first_review

\* C23 witness: in a later iteration of a turn that has shown the card of one
\* phrase, a show_review call for another phrase was dispatched and skipped
C23_Witness ==
    /\ Dispatched
    /\ agent.call.is_review
    /\ ~agent.call.yielded
    /\ agent.iterations >= 2
    /\ Len(agent.yielded) = 1
    /\ agent.yielded[1].phrase_id # agent.response.output[agent.item - 1].arguments[1]

\* C27 (as claimed): a call of a tool that self.tools declares never gets the
\* result "Unknown tool".
C27_DeclaredToolsDispatched ==
    (agent.call.name \in DeclaredTools /\ ~agent.call.raised)
        => agent.call.result.text # "Unknown tool"

\* C28 (as claimed): the result sent to the model for a show_review call is
\* "Review shown to user. Waiting for user rating." exactly when the card of the
\* call was yielded, and "Review NOT shown ..." exactly when it was skipped.
C28_ResultMatchesCard ==
    (Dispatched /\ agent.call.is_review)
        => /\ agent.call.llm_result.text = ReviewShownText <=> agent.call.yielded
           /\ agent.call.llm_result.text = ReviewNotShownText <=> ~agent.call.yielded

\* C29: process_message terminates: a turn never runs more than 10 iterations
\* of its loop nor sends more than 11 requests to the model, and every step of a
\* running turn either ends the loop, starts the next iteration or moves on to
\* the next output item of the current one.
C29_TurnTerminates ==
    /\ [](agent.iterations <= max_iterations /\ agent.requests <= max_iterations + 1)
    /\ [][agent.pc = "items"
            => \/ agent'.pc \in {"finish", "idle"}
               \/ agent'.iterations > agent.iterations
               \/ agent'.iterations = agent.iterations /\ agent'.item > agent.item
         ]_vars
    /\ [][agent.pc = "finish" => agent'.pc = "idle"]_vars

\* C29 witness: the model answered every request with get_next_due_phrases: the
\* turn ends after its tenth iteration and its eleventh request
C29_Witness ==
    /\ agent.pc = "finish"
    /\ agent.iterations = max_iterations
    /\ agent.requests = max_iterations + 1
    /\ agent.has_continuation_tools
    /\ agent.response.output = <<FunctionCall("get_next_due_phrases", <<>>)>>

\* the last step dispatched a call of the tool that fetches the due phrases
DuePhrasesCall == Dispatched /\ agent.call.name = "get_next_due_phrases"

\* C22 (as claimed): whatever limit the model passes, one call of the
\* get_next_due_phrases tool returns at most 100 phrases.
C22_AtMostHundred ==
    DuePhrasesCall => Len(agent.call.result.values) <= MaximumLimit

\* C25 (as claimed): once every stored phrase has been reviewed and none is due,
\* the get_next_due_phrases tool returns "No phrases due for review".
C25_SessionCompletes ==
    (/\ DuePhrasesCall
     /\ \A i \in 1..Len(phrases) : reviews[i] # <<>> /\ ~IsDue(phrases[i], now))
        => agent.call.result.text = "No phrases due for review"

-----------------------------------------------------------------------------
(* Properties of the bot, checked under BotSpec *)

\* C24: an update that comes from a user other than the allowed one, or from no
\* user, starts no turn of the agent and changes neither the conversation
\* history, nor review_state and the cards, nor the store.
C24_OnlyAllowedUserActs ==
    [][(bot'.update.id # bot.update.id /\ bot'.update.user # "allowed")
          => /\ agent' = agent
             /\ bot'.review_state = bot.review_state
             /\ bot'.cards = bot.cards
             /\ bot'.last_reset = bot.last_reset
             /\ bot'.debug_enabled = bot.debug_enabled
             /\ UNCHANGED <<phrases, file, reviews>>
      ]_vars

\* C24 witness: a stranger has pressed a rating button of the revealed card that
\* is the active one, and the card is still active and unrated
C24_Witness ==
    /\ bot.update.kind = "quality"
    /\ bot.update.user = "stranger"
    /\ bot.cards[bot.update.card].revealed
    /\ bot.cards[bot.update.card].ratings = 0
    /\ ActiveFor(bot.cards[bot.update.card].phrase_id)
    /\ agent.pc = "idle"

\* C30 (as claimed): the rating buttons of one shown card lead to at most one
\* update_review.
C30_RatedAtMostOnce ==
    \A c \in 1..Len(bot.cards) : bot.cards[c].ratings <= 1

=============================================================================
